---------------------------- MODULE Spec2Model ----------------------------
(***************************************************************************)
(* Model of the reward scorers of rl4mol:                                  *)
(*   verl/utils/reward_score/rule.py   (tag/content format scorer)         *)
(*   verl/utils/reward_score/newkk.py  (knights-and-knaves scorer)         *)
(*   verl/utils/reward_score/chem.py   (molecule generation scorer)        *)
(* and of the two reward managers that call them on a batch:               *)
(*   verl/workers/reward_manager/chem_reward.py      (ChemRewardManager)   *)
(*   verl/workers/reward_manager/logic_rl_reward.py  (LogicRLRewardManager)*)
(*                                                                         *)
(* Text is a sequence of tokens.  A token is a delimiter literal, one      *)
(* whitespace character, an alphabetic word, or a punctuation group.       *)
(* Delimiters and punctuation groups begin and end with a non-word         *)
(* character, so no literal the regular expressions look for can straddle  *)
(* two tokens; two adjacent word tokens read as one longer word.           *)
(*                                                                         *)
(* Scores are Python floats in the source.  Here they are integers in      *)
(* thousandths (0.5 is 500): every constant of the scorers is a multiple   *)
(* of 0.001 and the sums the model forms are exact in that unit.           *)
(***************************************************************************)
EXTENDS Integers, Sequences, FiniteSets, TLC

VARIABLES
    scorer,             \* which compute_score is running: "rule", "newkk", "chem"
    model_response,     \* the response text handed to compute_score
    ground_truth,       \* the ground-truth dict handed to compute_score
    pc,                 \* position inside compute_score
    score,              \* the local `score`; the return value once pc = "done"
    tag_positions,      \* the local dict tag name -> start offset
    think_content,      \* newkk: stripped group(1) of _RE_THINK_CONTENT
    think_length,       \* newkk: len(think_content)
    think_length_score, \* newkk: the length component
    think_quality_score,\* newkk: the keyword component
    gt_map,             \* newkk: _parse_gt_to_map(...)
    model_answer_text,  \* newkk: stripped group(1) of _RE_ANSWER_CONTENT
    answer_score,       \* newkk: what the answer stage added to score
    ran,                \* history: the stages compute_score has executed
    RDKIT_AVAILABLE,    \* chem: module flag, set by the import at load time
    SA_SCORE_AVAILABLE, \* chem: module flag, set by the import at load time
    solution_str,       \* chem: the response text handed to compute_score
    format_reward,      \* chem: first result of check_format
    smiles,             \* chem: second result of check_format (<< >> is None)
    validity_reward,    \* chem: first result of check_validity
    mol,                \* chem: second result of check_validity (<< >> is None)
    property_scores,    \* chem: the locals qed_score .. egfr_score set so far
    total_score,        \* chem: the value compute_score returns
    oracle_parse,       \* chem: what MolFromSmiles answered for this SMILES
    oracle_raises,      \* chem: per property function, whether its oracle raised
    chem_returns,       \* chem: history, the totals returned by earlier calls
    manager,            \* which reward manager the run uses: "chem", "logic_rl"
    data,               \* the DataProto every call of the run is handed
    num_examine,        \* self.num_examine
    mgr_pc,             \* position inside __call__: "idle", "loop", "raised"
    sample_i,           \* the loop index `i` of __call__
    reward_tensor,      \* the local reward_tensor, a list of rows
    reward_extra_info,  \* the local list reward_extra_info[<manager>_score]
    already_print_data_sources, \* the local dict data source -> examples printed
    returns,            \* history: what each call of the run returned
    printed,            \* history: data source -> examples printed in the run
    scored              \* history: the compute_score calls of the run

chemvars == << RDKIT_AVAILABLE, SA_SCORE_AVAILABLE, solution_str, format_reward,
               smiles, validity_reward, mol, property_scores, total_score,
               oracle_parse, oracle_raises, chem_returns >>

mgrvars == << manager, data, num_examine, mgr_pc, sample_i, reward_tensor,
              reward_extra_info, already_print_data_sources, returns, printed,
              scored >>

vars == << scorer, model_response, ground_truth, pc, score, tag_positions,
           think_content, think_length, think_length_score,
           think_quality_score, gt_map, model_answer_text, answer_score, ran,
           chemvars, mgrvars >>

---------------------------------------------------------------------------
(* Bounds of the model. *)

MaxLen == 6

MaxAnswerLines == 2

MaxThinkLength == 2040

MaxChemLen == 5

\* Calls made one after the other in one run.
MaxCalls == 2

\* Samples of a batch.
MaxBatch == 2

\* Width of the response tensor (max_response_length).
MaxRespLen == 4

\* Largest num_examine.
MaxExamine == 1

---------------------------------------------------------------------------
(* Tokens. *)

Whitespace == {" ", "\n"}

\* Tokens that begin and end with a non-word character: the delimiters and
\* the punctuation groups.  Every other token is an alphabetic word.
Delimiters ==
    {"<think>", "</think>", "<answer>", "</answer>", "<THINK>",
     "<SMILES>", "</SMILES>", "<smiles>"}

Punctuation == {"(1)", "(2)"}

IsWord(t) == t \notin Whitespace \cup Delimiters \cup Punctuation

\* str.lower() / re.IGNORECASE folding of one token.
Lower(t) ==
    CASE t = "Lily"      -> "lily"
      [] t = "Bob"       -> "bob"
      [] t = "KNAVE"     -> "knave"
      [] t = "<THINK>"   -> "<think>"
      [] t = "<SMILES>"  -> "<smiles>"
      [] t = "</SMILES>" -> "</smiles>"
      [] OTHER           -> t

\* len() of one token, in characters.
TokLen(t) == Len(t)

RECURSIVE CharLen(_)
CharLen(text) ==
    IF text = << >> THEN 0 ELSE TokLen(Head(text)) + CharLen(Tail(text))

\* Character offset at which token i of text starts (match.start()).
Offset(text, i) == CharLen(SubSeq(text, 1, i - 1))

MinOf(S) == CHOOSE x \in S : \A y \in S : x <= y

\* Mutant of FindAll: only the first occurrence is reported (re.search in
\* place of re.finditer).
FindFirstOnly(pattern, text) ==
    LET all == {i \in 1..Len(text) : text[i] = pattern}
    IN  IF all = {} THEN {} ELSE {MinOf(all)}

\* Mutant of FindAll: the pattern is compiled with re.IGNORECASE.
FindAllIgnoreCase(pattern, text) ==
    {i \in 1..Len(text) : Lower(text[i]) = Lower(pattern)}

\* Start indices of pattern.finditer(text) for a literal pattern compiled
\* without flags: the comparison is case-sensitive.
FindAll(pattern, text) == {i \in 1..Len(text) : text[i] = pattern}

\* str.strip(): drop leading and trailing whitespace.
RECURSIVE LStrip(_)
LStrip(text) ==
    IF text # << >> /\ Head(text) \in Whitespace THEN LStrip(Tail(text)) ELSE text

RECURSIVE RStrip(_)
RStrip(text) ==
    IF text # << >> /\ text[Len(text)] \in Whitespace
    THEN RStrip(SubSeq(text, 1, Len(text) - 1)) ELSE text

Strip(text) == RStrip(LStrip(text))

\* re.compile(open + '(.*?)' + close, re.DOTALL).search(text): the leftmost
\* open that has a close after it, and the text up to the first such close.
ContentSearch(open, close, text) ==
    LET starts == {i \in FindAll(open, text) :
                       \E j \in FindAll(close, text) : j > i}
    IN  IF starts = {} THEN [matched |-> FALSE, group1 |-> << >>]
        ELSE LET i == MinOf(starts)
                 j == MinOf({k \in FindAll(close, text) : k > i})
             IN  [matched |-> TRUE, group1 |-> SubSeq(text, i + 1, j - 1)]

EmptyMap == [k \in {} |-> 0]

---------------------------------------------------------------------------
(* rule.py *)

RULE_RE_THINK_START   == "<think>"
RULE_RE_THINK_END     == "</think>"
RULE_RE_ANSWER_START  == "<answer>"
RULE_RE_ANSWER_END    == "</answer>"

RULE_REWARD_TAG_PRESENT                 == 500
RULE_PENALTY_TAG_MISSING_OR_DUPLICATE   == -2000
RULE_REWARD_ORDER_CORRECT               == 1000
RULE_PENALTY_ORDER_INCORRECT            == -3000
RULE_REWARD_CONTENT_NON_EMPTY_THINK     == 200
RULE_PENALTY_CONTENT_EMPTY_THINK        == -500
RULE_REWARD_CONTENT_NON_EMPTY_ANSWER    == 500
RULE_PENALTY_CONTENT_EMPTY_ANSWER       == -1000

Rule_critical_tags_data ==
    << [tag_name |-> "think_start",  pattern |-> RULE_RE_THINK_START],
       [tag_name |-> "think_end",    pattern |-> RULE_RE_THINK_END],
       [tag_name |-> "answer_start", pattern |-> RULE_RE_ANSWER_START],
       [tag_name |-> "answer_end",   pattern |-> RULE_RE_ANSWER_END] >>

\* The loop of stage 1 from iteration i on, with the score and positions
\* accumulated so far; returned = TRUE when the loop left compute_score.
RECURSIVE RuleTagLoop(_, _, _, _)
RuleTagLoop(text, i, sc, pos) ==
    IF i > Len(Rule_critical_tags_data)
    THEN [returned |-> FALSE, score |-> sc, tag_positions |-> pos]
    ELSE LET d       == Rule_critical_tags_data[i]
             matches == FindAll(d.pattern, text)
         IN  IF Cardinality(matches) = 1
             THEN RuleTagLoop(text, i + 1, sc + RULE_REWARD_TAG_PRESENT,
                      pos @@ (d.tag_name :> Offset(text, MinOf(matches))))
             ELSE [returned |-> TRUE,
                   score |-> sc + RULE_PENALTY_TAG_MISSING_OR_DUPLICATE,
                   tag_positions |-> pos]

\* Mutant of RuleOrderCorrect: the comparison with answer_end is dropped.
RuleOrderCorrectNoAnswerEnd(pos) ==
    /\ pos["think_start"] < pos["think_end"]
    /\ pos["think_end"] < pos["answer_start"]

RuleOrderCorrect(pos) ==
    /\ pos["think_start"] < pos["think_end"]
    /\ pos["think_end"] < pos["answer_start"]
    /\ pos["answer_start"] < pos["answer_end"]

RuleThinkPoints(text) ==
    LET m == ContentSearch("<think>", "</think>", text)
    IN  IF m.matched /\ Strip(m.group1) # << >>
        THEN RULE_REWARD_CONTENT_NON_EMPTY_THINK
        ELSE RULE_PENALTY_CONTENT_EMPTY_THINK

RuleAnswerPointsHarsh(text) ==
    LET m == ContentSearch("<answer>", "</answer>", text)
    IN  IF m.matched /\ Strip(m.group1) # << >>
        THEN RULE_REWARD_CONTENT_NON_EMPTY_ANSWER
        ELSE 2 * RULE_PENALTY_ORDER_INCORRECT

RuleAnswerPoints(text) ==
    LET m == ContentSearch("<answer>", "</answer>", text)
    IN  IF m.matched /\ Strip(m.group1) # << >>
        THEN RULE_REWARD_CONTENT_NON_EMPTY_ANSWER
        ELSE RULE_PENALTY_CONTENT_EMPTY_ANSWER

\* rule.compute_score as a function of its argument (lines 29-110).
RuleComputeScore(text) ==
    LET r == RuleTagLoop(text, 1, 0, EmptyMap)
    IN  IF r.returned THEN r.score
        ELSE IF ~RuleOrderCorrect(r.tag_positions)
             THEN r.score + RULE_PENALTY_ORDER_INCORRECT
             ELSE r.score + RULE_REWARD_ORDER_CORRECT
                      + RuleThinkPoints(text) + RuleAnswerPoints(text)

NewkkUnchanged ==
    UNCHANGED << think_content, think_length, think_length_score,
                 think_quality_score, gt_map, model_answer_text, answer_score >>

Inputs == UNCHANGED << scorer, model_response, ground_truth, chemvars, mgrvars >>

\* Stage 1: existence and uniqueness of the four tags.
RuleTagCheck ==
    /\ scorer = "rule" /\ pc = "start"
    /\ LET r == RuleTagLoop(model_response, 1, 0, EmptyMap)
       IN  /\ score' = r.score
           /\ tag_positions' = r.tag_positions
           /\ pc' = IF r.returned THEN "done" ELSE "order"
    /\ ran' = ran \cup {"tags"}
    /\ Inputs /\ NewkkUnchanged

\* Stage 2: order of the four tags.
RuleOrderCheck ==
    /\ scorer = "rule" /\ pc = "order"
    /\ IF RuleOrderCorrect(tag_positions)
       THEN /\ score' = score + RULE_REWARD_ORDER_CORRECT
            /\ pc' = "content"
       ELSE /\ score' = score + RULE_PENALTY_ORDER_INCORRECT
            /\ pc' = "done"
    /\ ran' = ran \cup {"order"}
    /\ UNCHANGED tag_positions
    /\ Inputs /\ NewkkUnchanged

\* Stage 3: emptiness of the think and answer contents.
RuleContentCheck ==
    /\ scorer = "rule" /\ pc = "content"
    /\ score' = score + RuleThinkPoints(model_response)
                      + RuleAnswerPoints(model_response)
    /\ pc' = "done"
    /\ ran' = ran \cup {"content"}
    /\ UNCHANGED tag_positions
    /\ Inputs /\ NewkkUnchanged

---------------------------------------------------------------------------
(* newkk.py *)

NEWKK_RE_THINK_START   == "<think>"
NEWKK_RE_THINK_END     == "</think>"
NEWKK_RE_ANSWER_START  == "<answer>"
NEWKK_RE_ANSWER_END    == "</answer>"

NEWKK_REWARD_TAG_PRESENT                == 500
NEWKK_PENALTY_TAG_MISSING_OR_DUPLICATE  == -4000
NEWKK_REWARD_ORDER_CORRECT              == 1000
NEWKK_PENALTY_ORDER_INCORRECT           == -5000
NEWKK_PENALTY_CONTENT_EMPTY_ANSWER      == -2000
NEWKK_REWARD_FOR_EACH_CORRECT_ASSERTION == 4000
NEWKK_MIN_THINK_REWARD                  == -4000
NEWKK_MAX_THINK_REWARD                  == 4000
NEWKK_TARGET_THINK_LENGTH               == 2000
NEWKK_REWARD_FOR_KEYWORD_IN_THINK       == 1000

Roles == {"knight", "knave"}

\* Token i of text is the whole word w, compared case-insensitively: the
\* tokens on both sides, if any, are not words (\b on both sides).
WordAt(text, i, w) ==
    /\ IsWord(text[i])
    /\ Lower(text[i]) = w
    /\ (i > 1 => ~IsWord(text[i - 1]))
    /\ (i < Len(text) => ~IsWord(text[i + 1]))

\* First index >= i of text that holds no whitespace (Len(text) + 1 if none).
RECURSIVE SkipWs(_, _)
SkipWs(text, i) ==
    IF i <= Len(text) /\ text[i] \in Whitespace THEN SkipWs(text, i + 1) ELSE i

\* str.splitlines(): the lines of text, without their line ends.
RECURSIVE SplitLines(_)
SplitLines(text) ==
    IF text = << >> THEN << >>
    ELSE LET brk == FindAll("\n", text)
         IN  IF brk = {} THEN << text >>
             ELSE << SubSeq(text, 1, MinOf(brk) - 1) >>
                  \o SplitLines(SubSeq(text, MinOf(brk) + 1, Len(text)))

\* Whether \b([a-zA-Z]+)\b\s+is\s+a\s+\b(knight|knave)\b, re.IGNORECASE,
\* matches line with its name group at token i; r is the role token's index.
GtMatchAt(line, i) ==
    LET n  == Len(line)
        i1 == SkipWs(line, i + 1)
        i2 == SkipWs(line, i1 + 1)
        r  == SkipWs(line, i2 + 1)
    IN  /\ IsWord(line[i])
        /\ (i > 1 => ~IsWord(line[i - 1]))
        /\ i1 > i + 1  /\ i1 <= n /\ Lower(line[i1]) = "is"
        /\ i2 > i1 + 1 /\ i2 <= n /\ Lower(line[i2]) = "a"
        /\ r > i2 + 1  /\ r <= n
        /\ \E role \in Roles : WordAt(line, r, role)

GtRoleIndex(line, i) == SkipWs(line, SkipWs(line, SkipWs(line, i + 1) + 1) + 1)

\* The dict after gt_map[name] = role.
DictSet(d, k, v) == [x \in DOMAIN d \cup {k} |-> IF x = k THEN v ELSE d[x]]

\* dict.get(k, default)
DictGet(d, k, default) == IF k \in DOMAIN d THEN d[k] ELSE default

\* The loop of _parse_gt_to_map over the lines from index n on.
RECURSIVE ParseGtLines(_, _, _)
ParseGtLines(lines, n, map) ==
    IF n > Len(lines) THEN map
    ELSE LET line == lines[n]
             hits == {i \in 1..Len(line) : GtMatchAt(line, i)}
         IN  IF hits = {} THEN ParseGtLines(lines, n + 1, map)
             ELSE LET i == MinOf(hits)
                      name == Lower(line[i])
                      role == Lower(line[GtRoleIndex(line, i)])
                  IN  ParseGtLines(lines, n + 1, DictSet(map, name, role))

parse_gt_to_map(gt_text) == ParseGtLines(SplitLines(gt_text), 1, EmptyMap)

Newkk_critical_tags_data ==
    << [tag_name |-> "think_start",  pattern |-> NEWKK_RE_THINK_START],
       [tag_name |-> "think_end",    pattern |-> NEWKK_RE_THINK_END],
       [tag_name |-> "answer_start", pattern |-> NEWKK_RE_ANSWER_START],
       [tag_name |-> "answer_end",   pattern |-> NEWKK_RE_ANSWER_END] >>

RECURSIVE NewkkTagLoop(_, _, _, _)
NewkkTagLoop(text, i, sc, pos) ==
    IF i > Len(Newkk_critical_tags_data)
    THEN [returned |-> FALSE, score |-> sc, tag_positions |-> pos]
    ELSE LET d       == Newkk_critical_tags_data[i]
             matches == FindAll(d.pattern, text)
         IN  IF Cardinality(matches) = 1
             THEN NewkkTagLoop(text, i + 1, sc + NEWKK_REWARD_TAG_PRESENT,
                      pos @@ (d.tag_name :> Offset(text, MinOf(matches))))
             ELSE [returned |-> TRUE,
                   score |-> sc + NEWKK_PENALTY_TAG_MISSING_OR_DUPLICATE,
                   tag_positions |-> pos]

\* Mutant of NewkkOrderCorrect: the think tags are not compared.
NewkkOrderCorrectNoThink(pos) ==
    /\ pos["think_end"] < pos["answer_start"]
    /\ pos["answer_start"] < pos["answer_end"]

NewkkOrderCorrect(pos) ==
    /\ pos["think_start"] < pos["think_end"]
    /\ pos["think_end"] < pos["answer_start"]
    /\ pos["answer_start"] < pos["answer_end"]

\* Mutant of NewkkContent: the content is not stripped.
NewkkContentNoStrip(open, close, text) ==
    LET m == ContentSearch(open, close, text)
    IN  IF m.matched THEN m.group1 ELSE << >>

\* group(1).strip() of a content pattern, or "" when it does not match.
NewkkContent(open, close, text) ==
    LET m == ContentSearch(open, close, text)
    IN  IF m.matched THEN Strip(m.group1) ELSE << >>

\* Mutant of ThinkLengthScore: the cap of line 101 is missing.
ThinkLengthScoreUncapped(len) ==
    ((NEWKK_MAX_THINK_REWARD - NEWKK_MIN_THINK_REWARD) * len)
        \div NEWKK_TARGET_THINK_LENGTH + NEWKK_MIN_THINK_REWARD

\* Lines 99-101: linear in the length, capped at the maximum reward.
ThinkLengthScore(len) ==
    LET linear == ((NEWKK_MAX_THINK_REWARD - NEWKK_MIN_THINK_REWARD) * len)
                      \div NEWKK_TARGET_THINK_LENGTH + NEWKK_MIN_THINK_REWARD
    IN  IF linear < NEWKK_MAX_THINK_REWARD THEN linear ELSE NEWKK_MAX_THINK_REWARD

\* re.search(r'\b' + re.escape(name) + r'\b', think_content.lower())
NameInThink(name, content) == \E i \in 1..Len(content) : WordAt(content, i, name)

ThinkQualityScore(map, content) ==
    Cardinality({name \in DOMAIN map : NameInThink(name, content)})
        * NEWKK_REWARD_FOR_KEYWORD_IN_THINK

\* Mutant of AssertionFound: the pattern is compiled without re.IGNORECASE.
AssertionFoundCaseSensitive(name, role, answer) ==
    \E i, j \in 1..Len(answer) :
        /\ i < j
        /\ WordAt(answer, i, name) /\ answer[i] = name
        /\ WordAt(answer, j, role) /\ answer[j] = role
        /\ \A k \in i..j : answer[k] # "\n"

\* re.compile(rf'.*\b{name}\b.*\b{role}\b.*', re.IGNORECASE).search(answer):
\* '.' stops at a line end, so name and role stand on one line, name first.
AssertionFound(name, role, answer) ==
    \E i, j \in 1..Len(answer) :
        /\ i < j
        /\ WordAt(answer, i, name)
        /\ WordAt(answer, j, role)
        /\ \A k \in i..j : answer[k] # "\n"

num_correct_assertions(map, answer) ==
    Cardinality({name \in DOMAIN map : AssertionFound(name, map[name], answer)})

\* Mutant of AnswerPoints: the early return always adds the penalty.
AnswerPointsAlwaysPenalty(map, answer) ==
    IF answer = << >> \/ DOMAIN map = {}
    THEN NEWKK_PENALTY_CONTENT_EMPTY_ANSWER
    ELSE num_correct_assertions(map, answer)
             * NEWKK_REWARD_FOR_EACH_CORRECT_ASSERTION

\* Lines 124-137: what stage 4 adds to the score.
AnswerPoints(map, answer) ==
    IF answer = << >> \/ DOMAIN map = {}
    THEN (IF answer = << >> THEN NEWKK_PENALTY_CONTENT_EMPTY_ANSWER ELSE 0)
    ELSE num_correct_assertions(map, answer)
             * NEWKK_REWARD_FOR_EACH_CORRECT_ASSERTION

\* newkk.compute_score as a function of its arguments (lines 47-139).
NewkkComputeScore(text, gt) ==
    LET r == NewkkTagLoop(text, 1, 0, EmptyMap)
    IN  IF r.returned THEN r.score
        ELSE IF ~NewkkOrderCorrect(r.tag_positions)
             THEN r.score + NEWKK_PENALTY_ORDER_INCORRECT
             ELSE LET think  == NewkkContent("<think>", "</think>", text)
                      map    == parse_gt_to_map(
                                    DictGet(gt, "solution_text_format", << >>))
                      answer == NewkkContent("<answer>", "</answer>", text)
                  IN  r.score + NEWKK_REWARD_ORDER_CORRECT
                          + ThinkLengthScore(CharLen(think))
                          + (IF DOMAIN map # {}
                             THEN ThinkQualityScore(map, think) ELSE 0)
                          + AnswerPoints(map, answer)

NewkkTagCheck ==
    /\ scorer = "newkk" /\ pc = "start"
    /\ LET r == NewkkTagLoop(model_response, 1, 0, EmptyMap)
       IN  /\ score' = r.score
           /\ tag_positions' = r.tag_positions
           /\ pc' = IF r.returned THEN "done" ELSE "order"
    /\ ran' = ran \cup {"tags"}
    /\ Inputs /\ NewkkUnchanged

NewkkOrderCheck ==
    /\ scorer = "newkk" /\ pc = "order"
    /\ IF NewkkOrderCorrect(tag_positions)
       THEN /\ score' = score + NEWKK_REWARD_ORDER_CORRECT
            /\ pc' = "think"
       ELSE /\ score' = score + NEWKK_PENALTY_ORDER_INCORRECT
            /\ pc' = "done"
    /\ ran' = ran \cup {"order"}
    /\ UNCHANGED tag_positions
    /\ Inputs /\ NewkkUnchanged

\* Lines 94-96: the think content and its length.
NewkkThinkExtract ==
    /\ scorer = "newkk" /\ pc = "think"
    /\ think_content' = NewkkContent("<think>", "</think>", model_response)
    /\ think_length' = CharLen(think_content')
    /\ pc' = "length"
    /\ ran' = ran \cup {"think"}
    /\ UNCHANGED << score, tag_positions, think_length_score,
                    think_quality_score, gt_map, model_answer_text, answer_score >>
    /\ Inputs

\* Lines 99-102: the length component.
NewkkThinkLengthScore ==
    /\ scorer = "newkk" /\ pc = "length"
    /\ think_length_score' = ThinkLengthScore(think_length)
    /\ score' = score + think_length_score'
    /\ pc' = "quality"
    /\ ran' = ran \cup {"length"}
    /\ UNCHANGED << tag_positions, think_content, think_length,
                    think_quality_score, gt_map, model_answer_text, answer_score >>
    /\ Inputs

\* Lines 105-116: the ground-truth map and the keyword component.
NewkkThinkQuality ==
    /\ scorer = "newkk" /\ pc = "quality"
    /\ gt_map' = parse_gt_to_map(DictGet(ground_truth, "solution_text_format", << >>))
    /\ think_quality_score' =
           IF DOMAIN gt_map' # {} THEN ThinkQualityScore(gt_map', think_content) ELSE 0
    /\ score' = score + think_quality_score'
    /\ pc' = "answer"
    /\ ran' = ran \cup {"quality"}
    /\ UNCHANGED << tag_positions, think_content, think_length,
                    think_length_score, model_answer_text, answer_score >>
    /\ Inputs

\* Lines 121-139: the answer component.  answer_score records what the stage
\* adds on either path (the early return of line 125 or line 137).
NewkkAnswerScore ==
    /\ scorer = "newkk" /\ pc = "answer"
    /\ model_answer_text' = NewkkContent("<answer>", "</answer>", model_response)
    /\ answer_score' = AnswerPoints(gt_map, model_answer_text')
    /\ score' = score + answer_score'
    /\ pc' = "done"
    /\ ran' = ran \cup {"answer"}
    /\ UNCHANGED << tag_positions, think_content, think_length,
                    think_length_score, think_quality_score, gt_map >>
    /\ Inputs

---------------------------------------------------------------------------
(* chem.py *)

\* re.findall(pattern, text, re.IGNORECASE) for a literal pattern.
FindAllIgnoringCase(pattern, text) ==
    {i \in 1..Len(text) : Lower(text[i]) = Lower(pattern)}

\* Mutant of check_format: the tag counts of line 65 are not checked.
check_format_uncounted(response_str) ==
    LET open_tags  == FindAllIgnoringCase("<SMILES>", response_str)
        close_tags == FindAllIgnoringCase("</SMILES>", response_str)
        pairs == {i \in open_tags : \E j \in close_tags : j > i + 1}
    IN  IF pairs # {}
        THEN LET i == MinOf(pairs)
                 j == MinOf({k \in close_tags : k > i + 1})
                 inner == Strip(SubSeq(response_str, i + 1, j - 1))
             IN  IF inner # << >>
                 THEN [format_reward |-> 1000, smiles |-> << inner >>]
                 ELSE [format_reward |-> -5000, smiles |-> << >>]
        ELSE [format_reward |-> -5000, smiles |-> << >>]

\* check_format: one opening and one closing tag, in any letter case, with
\* <SMILES>\s*(.+?)\s*</SMILES> matching (at least one character between
\* them) and a group(1) that is not empty once stripped.
check_format(response_str) ==
    LET open_tags  == FindAllIgnoringCase("<SMILES>", response_str)
        close_tags == FindAllIgnoringCase("</SMILES>", response_str)
    IN  IF Cardinality(open_tags) = 1 /\ Cardinality(close_tags) = 1
        THEN LET i == MinOf(open_tags)
                 j == MinOf(close_tags)
                 inner == IF j > i + 1
                          THEN Strip(SubSeq(response_str, i + 1, j - 1))
                          ELSE << >>
             IN  IF inner # << >>
                 THEN [format_reward |-> 1000, smiles |-> << inner >>]
                 ELSE [format_reward |-> -5000, smiles |-> << >>]
        ELSE [format_reward |-> -5000, smiles |-> << >>]

\* What Chem.MolFromSmiles can do: return a molecule, return None, raise.
\* A molecule is known by the descriptors the oracle reports for it:
\* qed, sa and logp in thousandths, mw and tpsa in units, the rest counts.
Molecules ==
    { [qed |-> 1000, sa |-> 1000, logp |-> 2500, mw |-> 350, tpsa |-> 80,
       hbd |-> 2, hba |-> 5, aromatic_rings |-> 3, rotatable_bonds |-> 7],
      [qed |-> 300, sa |-> 8000, logp |-> 6000, mw |-> 700, tpsa |-> 160,
       hbd |-> 6, hba |-> 11, aromatic_rings |-> 0, rotatable_bonds |-> 0],
      [qed |-> 750, sa |-> 5000, logp |-> 500, mw |-> 180, tpsa |-> 30,
       hbd |-> 6, hba |-> 5, aromatic_rings |-> 1, rotatable_bonds |-> 4],
      [qed |-> 500, sa |-> 4000, logp |-> 4500, mw |-> 550, tpsa |-> 130,
       hbd |-> 2, hba |-> 11, aromatic_rings |-> 5, rotatable_bonds |-> 11],
      [qed |-> 499, sa |-> 7000, logp |-> -500, mw |-> 100, tpsa |-> 10,
       hbd |-> 0, hba |-> 0, aromatic_rings |-> 6, rotatable_bonds |-> 13],
      [qed |-> 999, sa |-> 4001, logp |-> 1000, mw |-> 200, tpsa |-> 40,
       hbd |-> 5, hba |-> 10, aromatic_rings |-> 2, rotatable_bonds |-> 5],
      [qed |-> 501, sa |-> 6999, logp |-> 999, mw |-> 199, tpsa |-> 39,
       hbd |-> 6, hba |-> 10, aromatic_rings |-> 4, rotatable_bonds |-> 10],
      [qed |-> 0, sa |-> 10000, logp |-> 5000, mw |-> 600, tpsa |-> 140,
       hbd |-> 0, hba |-> 11, aromatic_rings |-> 1, rotatable_bonds |-> 3] }

\* An outcome either raises or returns; what it returns is << >> for None
\* or << m >> for the molecule m.
ParseOutcomes ==
    [raised : BOOLEAN, returned : {<< >>} \cup {<< m >> : m \in Molecules}]

\* check_validity, given what Chem.MolFromSmiles does on the SMILES text.
check_validity_unpenalised(outcome) ==
    IF ~RDKIT_AVAILABLE THEN [validity_reward |-> -3000, mol |-> << >>]
    ELSE IF outcome.raised THEN [validity_reward |-> 0, mol |-> << >>]
    ELSE IF outcome.returned = << >>
         THEN [validity_reward |-> 0, mol |-> << >>]
         ELSE [validity_reward |-> 500, mol |-> outcome.returned]

check_validity(outcome) ==
    IF ~RDKIT_AVAILABLE THEN [validity_reward |-> -3000, mol |-> << >>]
    ELSE IF outcome.raised THEN [validity_reward |-> -3000, mol |-> << >>]
    ELSE IF outcome.returned = << >>
         THEN [validity_reward |-> -3000, mol |-> << >>]
         ELSE [validity_reward |-> 500, mol |-> outcome.returned]

Max(a, b) == IF a >= b THEN a ELSE b

Abs(a) == IF a >= 0 THEN a ELSE -a

\* Each property reward, given the molecule and whether an oracle call of
\* the function raises.
qed_reward_from_zero(m, raised) ==
    IF ~RDKIT_AVAILABLE THEN 0
    ELSE IF raised THEN 0
    ELSE IF m.qed < 500 THEN 0
    ELSE m.qed * 4

qed_reward(m, raised) ==
    IF ~RDKIT_AVAILABLE THEN 0
    ELSE IF raised THEN 0
    ELSE IF m.qed < 500 THEN 0
    ELSE (m.qed - 500) * 4

sa_reward_without_neutral(m, raised) ==
    IF ~SA_SCORE_AVAILABLE THEN 0
    ELSE IF raised THEN 0
    ELSE IF m.sa <= 4000 THEN 2000 - (m.sa - 1000) \div 2
    ELSE IF m.sa <= 7000 THEN Max(0, 500 - ((m.sa - 4000) * 15) \div 100)
    ELSE 0

sa_reward(m, raised) ==
    IF ~SA_SCORE_AVAILABLE THEN 1000
    ELSE IF raised THEN 0
    ELSE IF m.sa <= 4000 THEN 2000 - (m.sa - 1000) \div 2
    ELSE IF m.sa <= 7000 THEN Max(0, 500 - ((m.sa - 4000) * 15) \div 100)
    ELSE 0

logp_reward_unguarded(m, raised) ==
    IF ~RDKIT_AVAILABLE THEN 0
    ELSE IF raised THEN 0
    ELSE IF 1000 <= m.logp /\ m.logp <= 4000
         THEN 1500 - (Abs(m.logp - 2500) * 3) \div 10
    ELSE IF m.logp < 1000 THEN (m.logp * 8) \div 10
    ELSE IF 4000 < m.logp /\ m.logp <= 5000
         THEN Max(0, 500 - ((m.logp - 4000) * 3) \div 10)
    ELSE 0

logp_reward(m, raised) ==
    IF ~RDKIT_AVAILABLE THEN 0
    ELSE IF raised THEN 0
    ELSE IF 1000 <= m.logp /\ m.logp <= 4000
         THEN 1500 - (Abs(m.logp - 2500) * 3) \div 10
    ELSE IF 0 <= m.logp /\ m.logp < 1000 THEN (m.logp * 8) \div 10
    ELSE IF 4000 < m.logp /\ m.logp <= 5000
         THEN Max(0, 500 - ((m.logp - 4000) * 3) \div 10)
    ELSE 0

mw_reward(m, raised) ==
    IF ~RDKIT_AVAILABLE THEN 0
    ELSE IF raised THEN 0
    ELSE IF 200 <= m.mw /\ m.mw <= 500 THEN 1000
    ELSE IF 150 <= m.mw /\ m.mw < 200 THEN (m.mw - 150) * 10
    ELSE IF 500 < m.mw /\ m.mw <= 600 THEN Max(0, 1000 - (m.mw - 500) * 10)
    ELSE 0

tpsa_reward(m, raised) ==
    IF ~RDKIT_AVAILABLE THEN 0
    ELSE IF raised THEN 0
    ELSE IF 40 <= m.tpsa /\ m.tpsa <= 120 THEN 1000
    ELSE IF 20 <= m.tpsa /\ m.tpsa < 40 THEN (m.tpsa - 20) * 25
    ELSE IF 120 < m.tpsa /\ m.tpsa <= 140 THEN Max(0, 1000 - (m.tpsa - 120) * 50)
    ELSE 0

lipinski_reward(m, raised) ==
    IF ~RDKIT_AVAILABLE THEN 0
    ELSE IF raised THEN 0
    ELSE LET violations == (IF m.mw > 500 THEN 1 ELSE 0)
                         + (IF m.logp > 5000 THEN 1 ELSE 0)
                         + (IF m.hbd > 5 THEN 1 ELSE 0)
                         + (IF m.hba > 10 THEN 1 ELSE 0)
         IN  IF violations = 0 THEN 1500
             ELSE IF violations = 1 THEN 1000
             ELSE IF violations = 2 THEN 500
             ELSE 0

egfr_specific_reward(m, raised) ==
    IF ~RDKIT_AVAILABLE THEN 0
    ELSE IF raised THEN 0
    ELSE (IF 2 <= m.aromatic_rings /\ m.aromatic_rings <= 4 THEN 600
          ELSE IF m.aromatic_rings = 1 \/ m.aromatic_rings = 5 THEN 300
          ELSE 0)
       + (IF 5 <= m.rotatable_bonds /\ m.rotatable_bonds <= 10 THEN 400
          ELSE IF (3 <= m.rotatable_bonds /\ m.rotatable_bonds < 5)
                  \/ (10 < m.rotatable_bonds /\ m.rotatable_bonds <= 12) THEN 200
          ELSE 0)

ChemLocals ==
    /\ format_reward = 0
    /\ smiles = << >>
    /\ validity_reward = 0
    /\ mol = << >>
    /\ property_scores = EmptyMap
    /\ total_score = 0

NoOracleAnswers ==
    /\ oracle_parse = << >>
    /\ oracle_raises = [k \in {} |-> FALSE]
    /\ chem_returns = << >>

\* No reward manager has been constructed.
NoManager ==
    /\ manager = "none"
    /\ data = [rm_scores |-> << >>, items |-> << >>]
    /\ num_examine = 0
    /\ mgr_pc = "idle"
    /\ sample_i = 0
    /\ reward_tensor = << >>
    /\ reward_extra_info = << >>
    /\ already_print_data_sources = EmptyMap
    /\ returns = << >>
    /\ printed = EmptyMap
    /\ scored = << >>

OtherScorers ==
    UNCHANGED << scorer, model_response, ground_truth, score, tag_positions,
                 think_content, think_length, think_length_score,
                 think_quality_score, gt_map, model_answer_text, answer_score,
                 RDKIT_AVAILABLE, SA_SCORE_AVAILABLE, solution_str,
                 chem_returns, mgrvars >>

\* RDKit is a function of the SMILES text: the first time a call of the run
\* asks, any answer is possible; a later call on the same text gets the
\* answer the first one got.
ParseAnswers(outcome) ==
    /\ oracle_parse \in {<< >>, << outcome >>}
    /\ oracle_parse' = << outcome >>

PropertyAnswers(name, raised) ==
    /\ name \in DOMAIN oracle_raises => oracle_raises[name] = raised
    /\ oracle_raises' = [k \in DOMAIN oracle_raises \cup {name} |->
                            IF k = name THEN raised ELSE oracle_raises[k]]

\* Lines 350-352: without RDKit the minimum score is returned at once.
ChemRdkitGuard ==
    /\ scorer = "chem" /\ pc = "start"
    /\ IF ~RDKIT_AVAILABLE
       THEN total_score' = -5000 /\ pc' = "done"
       ELSE total_score' = total_score /\ pc' = "format"
    /\ ran' = ran \cup {"rdkit"}
    /\ UNCHANGED << format_reward, smiles, validity_reward, mol, property_scores,
                    oracle_parse, oracle_raises >>
    /\ OtherScorers

\* Lines 355-359: the format stage.
ChemFormat ==
    /\ scorer = "chem" /\ pc = "format"
    /\ LET r == check_format(solution_str)
       IN  /\ format_reward' = r.format_reward
           /\ smiles' = r.smiles
           /\ IF r.smiles = << >>
              THEN total_score' = r.format_reward /\ pc' = "done"
              ELSE total_score' = total_score /\ pc' = "validity"
    /\ ran' = ran \cup {"format"}
    /\ UNCHANGED << validity_reward, mol, property_scores,
                    oracle_parse, oracle_raises >>
    /\ OtherScorers

\* Lines 362-366: the validity stage.
ChemValidity ==
    /\ scorer = "chem" /\ pc = "validity"
    /\ \E outcome \in ParseOutcomes :
           LET r == check_validity(outcome)
           IN  /\ ParseAnswers(outcome)
               /\ validity_reward' = r.validity_reward
               /\ mol' = r.mol
               /\ IF r.mol = << >>
                  THEN /\ total_score' = format_reward + r.validity_reward
                       /\ pc' = "done"
                  ELSE /\ total_score' = total_score
                       /\ pc' = "qed"
    /\ ran' = ran \cup {"validity"}
    /\ UNCHANGED << format_reward, smiles, property_scores, oracle_raises >>
    /\ OtherScorers

\* One of the calls of lines 369-375: the local `name` is set to `value`.
ChemProperty(at, name, value, next) ==
    /\ scorer = "chem" /\ pc = at
    /\ property_scores' = property_scores @@ (name :> value)
    /\ pc' = next
    /\ ran' = ran \cup {name}
    /\ UNCHANGED << format_reward, smiles, validity_reward, mol, total_score,
                    oracle_parse >>
    /\ OtherScorers

ChemQed ==
    \E raised \in BOOLEAN :
        /\ PropertyAnswers("qed_score", raised)
        /\ ChemProperty("qed", "qed_score", qed_reward(mol[1], raised), "sa")

ChemSa ==
    \E raised \in BOOLEAN :
        /\ PropertyAnswers("sa_score", raised)
        /\ ChemProperty("sa", "sa_score", sa_reward(mol[1], raised), "logp")

ChemLogp ==
    \E raised \in BOOLEAN :
        /\ PropertyAnswers("logp_score", raised)
        /\ ChemProperty("logp", "logp_score", logp_reward(mol[1], raised), "mw")

ChemMw ==
    \E raised \in BOOLEAN :
        /\ PropertyAnswers("mw_score", raised)
        /\ ChemProperty("mw", "mw_score", mw_reward(mol[1], raised), "tpsa")

ChemTpsa ==
    \E raised \in BOOLEAN :
        /\ PropertyAnswers("tpsa_score", raised)
        /\ ChemProperty("tpsa", "tpsa_score", tpsa_reward(mol[1], raised), "lipinski")

ChemLipinski ==
    \E raised \in BOOLEAN :
        /\ PropertyAnswers("lipinski_score", raised)
        /\ ChemProperty("lipinski", "lipinski_score",
                     lipinski_reward(mol[1], raised), "egfr")

ChemEgfr ==
    \E raised \in BOOLEAN :
        /\ PropertyAnswers("egfr_score", raised)
        /\ ChemProperty("egfr", "egfr_score",
                     egfr_specific_reward(mol[1], raised), "total")

\* A sum that grows with the number of calls made before this one.
ChemTotalCounting ==
    /\ scorer = "chem" /\ pc = "total"
    /\ total_score' = format_reward + validity_reward
                        + property_scores["qed_score"]
                        + property_scores["sa_score"]
                        + property_scores["logp_score"]
                        + property_scores["mw_score"]
                        + property_scores["tpsa_score"]
                        + property_scores["lipinski_score"]
                        + property_scores["egfr_score"]
                        + 1000 * Len(chem_returns)
    /\ pc' = "done"
    /\ ran' = ran \cup {"total"}
    /\ UNCHANGED << format_reward, smiles, validity_reward, mol, property_scores,
                    oracle_parse, oracle_raises >>
    /\ OtherScorers

\* Lines 378-398: the sum.
ChemTotal ==
    /\ scorer = "chem" /\ pc = "total"
    /\ total_score' = format_reward + validity_reward
                        + property_scores["qed_score"]
                        + property_scores["sa_score"]
                        + property_scores["logp_score"]
                        + property_scores["mw_score"]
                        + property_scores["tpsa_score"]
                        + property_scores["lipinski_score"]
                        + property_scores["egfr_score"]
    /\ pc' = "done"
    /\ ran' = ran \cup {"total"}
    /\ UNCHANGED << format_reward, smiles, validity_reward, mol, property_scores,
                    oracle_parse, oracle_raises >>
    /\ OtherScorers

\* compute_score has returned and is called again on the same text (lines
\* 326-346): every local is fresh, the module flags and RDKit are as before.
ChemCallAgain ==
    /\ scorer = "chem" /\ pc = "done"
    /\ Len(chem_returns) + 1 < MaxCalls
    /\ chem_returns' = Append(chem_returns, total_score)
    /\ pc' = "start"
    /\ ran' = {}
    /\ format_reward' = 0
    /\ smiles' = << >>
    /\ validity_reward' = 0
    /\ mol' = << >>
    /\ property_scores' = EmptyMap
    /\ total_score' = 0
    /\ UNCHANGED << scorer, model_response, ground_truth, score, tag_positions,
                    think_content, think_length, think_length_score,
                    think_quality_score, gt_map, model_answer_text, answer_score,
                    RDKIT_AVAILABLE, SA_SCORE_AVAILABLE, solution_str,
                    oracle_parse, oracle_raises, mgrvars >>

---------------------------------------------------------------------------
(* chem_reward.py and logic_rl_reward.py: the two reward managers.         *)
(*                                                                         *)
(* A DataProto is a record: rm_scores is << >> when the batch has no such  *)
(* key and << grid >> when it has; items is the list of samples.  A sample *)
(* carries prompts, responses, attention_mask (over prompt and response),  *)
(* data_source (a text) and reward_model (a dict).  Token ids are written  *)
(* as the text pieces they decode to.  The float32 cells of the tensor are *)
(* scores in thousandths like every other score.                           *)

\* chem.compute_score as one function of the text (lines 326-398), RDKit
\* answering oracle_parse and oracle_raises.
ChemComputeScore(text) ==
    IF ~RDKIT_AVAILABLE THEN -5000
    ELSE LET f == check_format(text)
         IN  IF f.smiles = << >> THEN f.format_reward
             ELSE LET v == check_validity(oracle_parse[1])
                      threw(name) == DictGet(oracle_raises, name, FALSE)
                  IN  IF v.mol = << >>
                      THEN f.format_reward + v.validity_reward
                      ELSE f.format_reward + v.validity_reward
                           + qed_reward(v.mol[1], threw("qed_score"))
                           + sa_reward(v.mol[1], threw("sa_score"))
                           + logp_reward(v.mol[1], threw("logp_score"))
                           + mw_reward(v.mol[1], threw("mw_score"))
                           + tpsa_reward(v.mol[1], threw("tpsa_score"))
                           + lipinski_reward(v.mol[1], threw("lipinski_score"))
                           + egfr_specific_reward(v.mol[1], threw("egfr_score"))

\* kk.compute_score: the logic-puzzle scorer of the specification.
kk_compute_score(text, gt) == NewkkComputeScore(text, gt)

\* tokenizer.decode(ids, skip_special_tokens=True)
SpecialTokens == {"<pad>", "<eos>"}

NotSpecial(t) == t \notin SpecialTokens

decode(ids) == SelectSeq(ids, NotSpecial)

\* tensor.sum() of a 0/1 mask
RECURSIVE SumSeq(_)
SumSeq(mask) == IF mask = << >> THEN 0 ELSE Head(mask) + SumSeq(Tail(mask))

\* seq[k:] and seq[:k] for 0 <= k
SliceFrom(seq, k) == SubSeq(seq, k + 1, Len(seq))

SliceTo(seq, k) == SubSeq(seq, 1, IF k <= Len(seq) THEN k ELSE Len(seq))

\* The position (from 1) that the Python index k (from 0, negative from the
\* end) names in a dimension of the given width.
PyIndex(k, width) == IF k < 0 THEN k + width + 1 ELSE k + 1

\* "x in data_source" for a key that is one piece of the text
Contains(text, key) == \E k \in 1..Len(text) : text[k] = key

\* _select_rm_score_fn: << >> stands for an exception leaving the function
\* (NotImplementedError of line 39; NameError for gsm8k, math and countdown,
\* which the module does not import).
select_rm_score_fn(data_source) ==
    IF data_source = << "openai/gsm8k" >> THEN << >>
    ELSE IF data_source = << "lighteval/MATH" >> THEN << >>
    ELSE IF Contains(data_source, "countdown") THEN << >>
    ELSE IF Contains(data_source, "kk") THEN << "kk" >>
    ELSE IF Contains(data_source, "rule") THEN << "rule" >>
    ELSE << >>

\* compute_score_fn(response_str, ground_truth) for the function selected
ApplyCarryingOver(fn, text, gt) ==
    (CASE fn = "chem" -> ChemComputeScore(text)
       [] fn = "kk"   -> kk_compute_score(text, gt)
       [] fn = "rule" -> RuleComputeScore(text))
    + (IF reward_extra_info = << >> THEN 0
       ELSE reward_extra_info[Len(reward_extra_info)])

Apply(fn, text, gt) ==
    CASE fn = "chem" -> ChemComputeScore(text)
      [] fn = "kk"   -> kk_compute_score(text, gt)
      [] fn = "rule" -> RuleComputeScore(text)

\* "rm_scores" in data.batch.keys()
IgnoresRmScores(d) == FALSE

HasRmScores(d) == d.rm_scores # << >>

\* already_print_data_sources[data_source] < self.num_examine
MayPrintOneMore(count, n) == count <= n

MayPrint(count, n) == count < n

\* torch.zeros_like(data.batch["responses"])
ZerosLike(items) ==
    [r \in 1..Len(items) |-> [c \in 1..Len(items[r].responses) |-> 0]]

\* valid_response_length of a sample (lines 53-58 / 70-74)
ValidResponseLength(item) ==
    SumSeq(SliceFrom(item.attention_mask, Len(item.prompts)))

\* response_str of a sample (lines 59-63 / 75-79)
ResponseStr(item) ==
    decode(SliceTo(item.responses, ValidResponseLength(item)))

ScorerUnchanged ==
    UNCHANGED << scorer, model_response, ground_truth, pc, score, tag_positions,
                 think_content, think_length, think_length_score,
                 think_quality_score, gt_map, model_answer_text, answer_score,
                 ran, chemvars >>

\* Entry of __call__ (lines 36-47 of chem_reward.py, 53-64 of
\* logic_rl_reward.py): the precomputed scores are returned as they are,
\* else the locals are created.
ManagerCall(m) ==
    /\ manager = m /\ mgr_pc = "idle"
    /\ Len(returns) < MaxCalls
    /\ IF HasRmScores(data)
       THEN /\ returns' = Append(returns, data.rm_scores[1])
            /\ UNCHANGED << mgr_pc, sample_i, reward_tensor, reward_extra_info,
                            already_print_data_sources >>
       ELSE /\ reward_tensor' = ZerosLike(data.items)
            /\ reward_extra_info' = << >>
            /\ already_print_data_sources' = EmptyMap
            /\ sample_i' = 0
            /\ mgr_pc' = "loop"
            /\ UNCHANGED returns
    /\ UNCHANGED << manager, data, num_examine, printed, scored >>
    /\ ScorerUnchanged

\* One pass of the loop body with the scoring function fn, or with the
\* exception of the selection when fn is << >>.
ManagerSample(m, fn) ==
    /\ manager = m /\ mgr_pc = "loop"
    /\ sample_i < Len(data.items)
    /\ IF fn = << >>
       THEN /\ mgr_pc' = "raised"
            /\ UNCHANGED << sample_i, reward_tensor, reward_extra_info,
                            already_print_data_sources, printed, scored >>
       ELSE LET data_item == data.items[sample_i + 1]
                valid_response_length == ValidResponseLength(data_item)
                response_str == ResponseStr(data_item)
                gt == DictGet(data_item.reward_model, "ground_truth", EmptyMap)
                data_source == data_item.data_source
                sc == Apply(fn[1], response_str, gt)
                row == sample_i + 1
                col == PyIndex(valid_response_length - 1,
                               Len(data_item.responses))
                seen == DictGet(already_print_data_sources, data_source, 0)
            IN  /\ reward_extra_info' = Append(reward_extra_info, sc)
                /\ reward_tensor' = [reward_tensor EXCEPT ![row][col] = sc]
                /\ scored' = Append(scored, [row |-> row, fn |-> fn[1]])
                /\ IF MayPrint(seen, num_examine)
                   THEN /\ already_print_data_sources' =
                               DictSet(already_print_data_sources,
                                       data_source, seen + 1)
                        /\ printed' = DictSet(printed, data_source,
                                       DictGet(printed, data_source, 0) + 1)
                   ELSE /\ already_print_data_sources' =
                               DictSet(already_print_data_sources,
                                       data_source, seen)
                        /\ printed' = printed
                /\ sample_i' = sample_i + 1
                /\ mgr_pc' = "loop"
    /\ UNCHANGED << manager, data, num_examine, returns >>
    /\ ScorerUnchanged

\* The end of __call__ (lines 85-91 / 105-111).
ManagerReturn(m) ==
    /\ manager = m /\ mgr_pc = "loop"
    /\ sample_i = Len(data.items)
    /\ returns' = Append(returns, reward_tensor)
    /\ mgr_pc' = "idle"
    /\ UNCHANGED << manager, data, num_examine, sample_i, reward_tensor,
                    reward_extra_info, already_print_data_sources, printed,
                    scored >>
    /\ ScorerUnchanged

ChemManagerCall == ManagerCall("chem")

\* Line 70: chem.compute_score, whatever the data source.
ChemManagerSample == ManagerSample("chem", << "chem" >>)

ChemManagerReturn == ManagerReturn("chem")

LogicManagerCall == ManagerCall("logic_rl")

\* Line 85: the function is selected for the literal "kk".
LogicManagerSample == ManagerSample("logic_rl", select_rm_score_fn(<< "kk" >>))

LogicManagerReturn == ManagerReturn("logic_rl")

---------------------------------------------------------------------------
(* Specification of the structural stages on arbitrary short responses. *)

StructAlphabet ==
    {"<think>", "</think>", "<answer>", "</answer>", "<THINK>", " ", "lily"}

\* "Lily is a knave"
GtLilyKnave == << "Lily", " ", "is", " ", "a", " ", "knave" >>

StructGroundTruths ==
    { EmptyMap, [k \in {"solution_text_format"} |-> GtLilyKnave] }

SeqsUpTo(S, n) == UNION {[1..k -> S] : k \in 0..n}

Locals ==
    /\ pc = "start"
    /\ score = 0
    /\ tag_positions = EmptyMap
    /\ think_content = << >>
    /\ think_length = 0
    /\ think_length_score = 0
    /\ think_quality_score = 0
    /\ gt_map = EmptyMap
    /\ model_answer_text = << >>
    /\ answer_score = 0
    /\ ran = {}
    /\ RDKIT_AVAILABLE = FALSE
    /\ SA_SCORE_AVAILABLE = FALSE
    /\ solution_str = << >>
    /\ ChemLocals
    /\ NoOracleAnswers
    /\ NoManager

Init ==
    /\ scorer \in {"rule", "newkk"}
    /\ model_response \in SeqsUpTo(StructAlphabet, MaxLen)
    /\ ground_truth \in StructGroundTruths
    /\ Locals

Next ==
    \/ RuleTagCheck
    \/ RuleOrderCheck
    \/ RuleContentCheck
    \/ NewkkTagCheck
    \/ NewkkOrderCheck
    \/ NewkkThinkExtract
    \/ NewkkThinkLengthScore
    \/ NewkkThinkQuality
    \/ NewkkAnswerScore

Spec == Init /\ [][Next]_vars

---------------------------------------------------------------------------
(* Specification of newkk.compute_score on well-formed puzzle responses:   *)
(* a reasoning block, an answer block of up to MaxAnswerLines lines, and a *)
(* ground truth, in three layouts.                                         *)

Sp(words) ==   \* the words of a line, separated by single spaces
    [i \in 1..(2 * Len(words) - 1) |->
        IF i % 2 = 1 THEN words[(i + 1) \div 2] ELSE " "]

LogicThinks ==
    { << >>,
      << " " >>,
      << "\n", " " >>,
      << "lily" >>,
      Sp(<< "Lily", "is", "bob" >>),
      << "lily", "bob" >> }

AnswerLines ==
    { << >>,
      << " " >>,
      Sp(<< "lily", "is", "a", "knave" >>),
      Sp(<< "(1)", "Lily", "is", "a", "KNAVE" >>),
      Sp(<< "bob", "is", "a", "knight" >>),
      Sp(<< "lily", "is", "a", "knight" >>),
      Sp(<< "knave", "lily" >>),
      Sp(<< "lily", "is", "a", "knight", "bob", "is", "a", "knave" >>) }

RECURSIVE JoinLines(_)
JoinLines(lines) ==
    IF lines = << >> THEN << >>
    ELSE IF Len(lines) = 1 THEN lines[1]
    ELSE lines[1] \o << "\n" >> \o JoinLines(Tail(lines))

LogicAnswers == {JoinLines(ls) : ls \in SeqsUpTo(AnswerLines, MaxAnswerLines)}

GtText(text) == [k \in {"solution_text_format"} |-> text]

LogicGroundTruths ==
    { EmptyMap,
      GtText(<< >>),
      GtText(Sp(<< "bob", "is", "knave" >>)),
      GtText(Sp(<< "(1)", "Lily", "is", "a", "knave" >>)),
      GtText(Sp(<< "(1)", "lily", "is", "a", "knave" >>) \o << "\n" >>
             \o Sp(<< "(2)", "Bob", "is", "a", "knight" >>)),
      GtText(Sp(<< "lily", "is", "a", "knight" >>) \o << "\n" >>
             \o Sp(<< "Lily", "is", "a", "KNAVE" >>)) }

Layouts == {"plain", "lead", "swapped"}

Assemble(layout, think, answer) ==
    LET tb == << "<think>" >> \o think \o << "</think>" >>
        ab == << "<answer>" >> \o answer \o << "</answer>" >>
    IN  CASE layout = "plain"   -> tb \o << "\n" >> \o ab
          [] layout = "lead"    -> << "bob", " " >> \o tb \o ab \o << "\n" >>
          [] layout = "swapped" -> ab \o tb

InitLogic ==
    /\ scorer = "newkk"
    /\ \E layout \in Layouts, think \in LogicThinks, answer \in LogicAnswers :
           model_response = Assemble(layout, think, answer)
    /\ ground_truth \in LogicGroundTruths
    /\ Locals

NextNewkk ==
    \/ NewkkTagCheck
    \/ NewkkOrderCheck
    \/ NewkkThinkExtract
    \/ NewkkThinkLengthScore
    \/ NewkkThinkQuality
    \/ NewkkAnswerScore

SpecLogic == InitLogic /\ [][NextNewkk]_vars

---------------------------------------------------------------------------
(* Specification of newkk.compute_score on responses whose reasoning block *)
(* is one word of every length from 0 to MaxThinkLength.                   *)

\* A word of n letters.
RECURSIVE Letters(_)
Letters(n) ==
    IF n = 0 THEN ""
    ELSE LET h == Letters(n \div 2)
         IN  IF n % 2 = 0 THEN h \o h ELSE h \o h \o "x"

WordOfLength(n) == IF n = 0 THEN << >> ELSE << Letters(n) >>

InitLength ==
    /\ scorer = "newkk"
    /\ \E n \in 0..MaxThinkLength, layout \in {"plain", "lead"} :
           model_response =
               Assemble(layout, WordOfLength(n), Sp(<< "lily", "is", "a", "knave" >>))
    /\ ground_truth = GtText(Sp(<< "(1)", "Lily", "is", "a", "knave" >>))
    /\ Locals

SpecLength == InitLength /\ [][NextNewkk]_vars

---------------------------------------------------------------------------
(* Specification of chem.compute_score on arbitrary short responses, with  *)
(* and without the two optional libraries.                                 *)

ChemAlphabet == {"<SMILES>", "</SMILES>", "<smiles>", " ", "CCO"}

ChemStart(responses) ==
    /\ scorer = "chem"
    /\ solution_str \in responses
    /\ RDKIT_AVAILABLE \in BOOLEAN
    /\ SA_SCORE_AVAILABLE \in BOOLEAN
    /\ SA_SCORE_AVAILABLE => RDKIT_AVAILABLE
    /\ model_response = << >>
    /\ ground_truth = EmptyMap
    /\ pc = "start"
    /\ score = 0
    /\ tag_positions = EmptyMap
    /\ think_content = << >>
    /\ think_length = 0
    /\ think_length_score = 0
    /\ think_quality_score = 0
    /\ gt_map = EmptyMap
    /\ model_answer_text = << >>
    /\ answer_score = 0
    /\ ran = {}
    /\ ChemLocals
    /\ NoOracleAnswers
    /\ NoManager

InitChem == ChemStart(SeqsUpTo(ChemAlphabet, MaxChemLen))

NextChem ==
    \/ ChemRdkitGuard
    \/ ChemFormat
    \/ ChemValidity
    \/ ChemQed
    \/ ChemSa
    \/ ChemLogp
    \/ ChemMw
    \/ ChemTpsa
    \/ ChemLipinski
    \/ ChemEgfr
    \/ ChemTotal

SpecChem == InitChem /\ [][NextChem]_vars

---------------------------------------------------------------------------
(* Specification of successive calls of chem.compute_score on one text. *)

NextChemTwice ==
    \/ NextChem
    \/ ChemCallAgain

\* The responses without the lower-case tag and the blank.
InitChemTwice ==
    ChemStart(SeqsUpTo({"<SMILES>", "</SMILES>", "CCO"}, MaxChemLen))

SpecChemTwice == InitChemTwice /\ [][NextChemTwice]_vars

---------------------------------------------------------------------------
(* Specification of the seven property functions, called in turn on a      *)
(* molecule handle, with each optional library present or absent.          *)

PropertiesStart(molecules) ==
    /\ scorer = "chem"
    /\ pc = "qed"
    /\ \E m \in molecules :
           /\ mol = << m >>
           /\ oracle_parse = << [raised |-> FALSE, returned |-> << m >>] >>
    /\ RDKIT_AVAILABLE \in BOOLEAN
    /\ SA_SCORE_AVAILABLE \in BOOLEAN
    /\ SA_SCORE_AVAILABLE => RDKIT_AVAILABLE
    /\ solution_str = << "<SMILES>", "CCO", "</SMILES>" >>
    /\ smiles = << "CCO" >>
    /\ format_reward = 1000
    /\ validity_reward = 500
    /\ property_scores = EmptyMap
    /\ total_score = 0
    /\ oracle_raises = [k \in {} |-> FALSE]
    /\ chem_returns = << >>
    /\ model_response = << >>
    /\ ground_truth = EmptyMap
    /\ score = 0
    /\ tag_positions = EmptyMap
    /\ think_content = << >>
    /\ think_length = 0
    /\ think_length_score = 0
    /\ think_quality_score = 0
    /\ gt_map = EmptyMap
    /\ model_answer_text = << >>
    /\ answer_score = 0
    /\ ran = {}
    /\ NoManager

InitProperties == PropertiesStart(Molecules)

NextProperties ==
    \/ ChemQed
    \/ ChemSa
    \/ ChemLogp
    \/ ChemMw
    \/ ChemTpsa
    \/ ChemLipinski
    \/ ChemEgfr
    \/ ChemTotal

SpecProperties == InitProperties /\ [][NextProperties]_vars

---------------------------------------------------------------------------
(* Specification of qed_reward on every drug-likeness value, in steps of   *)
(* 0.001.  QED.qed is a weighted geometric mean of desirabilities, each at *)
(* most 1, so it returns a value from 0 to 1 (line 114: "Map 0.5-1.0").    *)

QED_MAX == 1000

QedMolecules ==
    LET base == CHOOSE m \in Molecules : m.qed = QED_MAX
    IN  {[base EXCEPT !.qed = q] : q \in 0..QED_MAX}

InitQed == PropertiesStart(QedMolecules)

NextQed == ChemQed

SpecQed == InitQed /\ [][NextQed]_vars

---------------------------------------------------------------------------
(* Specification of the reward managers: one manager, one batch of up to   *)
(* MaxBatch samples, handed to __call__ up to MaxCalls times.              *)

PadTo(ids, n) == [k \in 1..n |-> IF k <= Len(ids) THEN ids[k] ELSE "<pad>"]

\* The response rows a policy can produce for each manager.
ResponseRows(m) ==
    IF m = "chem"
    THEN { PadTo(<< "<SMILES>", "CCO", "</SMILES>", "<eos>" >>, MaxRespLen),
           PadTo(<< "CCO", "<eos>" >>, MaxRespLen) }
    ELSE { PadTo(<< "<think>", "</think>", "<answer>", "</answer>" >>, MaxRespLen),
           PadTo(<< "<answer>", "lily", "</answer>", "<eos>" >>, MaxRespLen) }

DataSources == { << "kk", "_", "logic" >>, << "egfr_molecule" >> }

\* Prompts are padded on the left, responses on the right: the mask of a
\* response is a run of ones followed by zeros.
Sample(m, row, valid, source) ==
    [ prompts        |-> << "<pad>", "Q" >>,
      responses      |-> row,
      attention_mask |-> << 0, 1 >> \o [k \in 1..Len(row) |->
                                          IF k <= valid THEN 1 ELSE 0],
      data_source    |-> source,
      reward_model   |-> [k \in {"ground_truth"} |->
                             IF m = "chem" THEN EmptyMap
                             ELSE GtText(Sp(<< "(1)", "Lily", "is", "a", "knave" >>))] ]

Samples(m) ==
    { Sample(m, row, valid, source) :
          row \in ResponseRows(m), valid \in 0..MaxRespLen, source \in DataSources }

Batches(m) == UNION {[1..n -> Samples(m)] : n \in 1..MaxBatch}

\* Scores computed by a reward model for the batch.
RmScores(items) ==
    [r \in 1..Len(items) |-> [c \in 1..Len(items[r].responses) |->
                                  IF c = 1 THEN 250 ELSE 0]]

\* What RDKit answers for the SMILES of the batch: no molecule, or a
\* molecule of the highest drug-likeness.
ManagerParseOutcomes ==
    {o \in ParseOutcomes :
        ~o.raised /\ (o.returned = << >> \/ o.returned[1].qed = 1000)}

InitManager ==
    /\ manager \in {"chem", "logic_rl"}
    /\ \E items \in Batches(manager) :
           \E rm \in {<< >>, << RmScores(items) >>} :
               data = [rm_scores |-> rm, items |-> items]
    /\ num_examine \in 0..MaxExamine
    /\ mgr_pc = "idle"
    /\ sample_i = 0
    /\ reward_tensor = << >>
    /\ reward_extra_info = << >>
    /\ already_print_data_sources = EmptyMap
    /\ returns = << >>
    /\ printed = EmptyMap
    /\ scored = << >>
    /\ RDKIT_AVAILABLE = (manager = "chem")
    /\ SA_SCORE_AVAILABLE = FALSE
    /\ IF manager = "chem"
       THEN \E outcome \in ManagerParseOutcomes : oracle_parse = << outcome >>
       ELSE oracle_parse = << >>
    /\ oracle_raises = [k \in {} |-> FALSE]
    /\ chem_returns = << >>
    /\ scorer = "none"
    /\ model_response = << >>
    /\ ground_truth = EmptyMap
    /\ solution_str = << >>
    /\ pc = "start"
    /\ score = 0
    /\ tag_positions = EmptyMap
    /\ think_content = << >>
    /\ think_length = 0
    /\ think_length_score = 0
    /\ think_quality_score = 0
    /\ gt_map = EmptyMap
    /\ model_answer_text = << >>
    /\ answer_score = 0
    /\ ran = {}
    /\ ChemLocals

NextManager ==
    \/ ChemManagerCall
    \/ ChemManagerSample
    \/ ChemManagerReturn
    \/ LogicManagerCall
    \/ LogicManagerSample
    \/ LogicManagerReturn

SpecManager == InitManager /\ [][NextManager]_vars

---------------------------------------------------------------------------
(* Vocabulary of the claims, read off the response itself. *)

Tags == {"<think>", "</think>", "<answer>", "</answer>"}

Occurrences(tag) ==
    Cardinality({i \in 1..Len(model_response) : model_response[i] = tag})

FirstIndex(tag) ==
    MinOf({i \in 1..Len(model_response) : model_response[i] = tag})

EachTagOnce == \A tag \in Tags : Occurrences(tag) = 1

InOrder ==
    /\ FirstIndex("<think>") < FirstIndex("</think>")
    /\ FirstIndex("</think>") < FirstIndex("<answer>")
    /\ FirstIndex("<answer>") < FirstIndex("</answer>")

StructureAccepted == EachTagOnce /\ InOrder

MissingOrDuplicatePenalty == IF scorer = "rule" THEN -2000 ELSE -4000

ContentStages == {"content", "think", "length", "quality", "answer"}

\* The response with every delimiter tag written in lower case.
LowerTags(text) ==
    [i \in 1..Len(text) |-> IF text[i] \in Delimiters THEN Lower(text[i]) ELSE text[i]]

TotalOf(text) ==
    IF scorer = "rule" THEN RuleComputeScore(text)
    ELSE NewkkComputeScore(text, ground_truth)

---------------------------------------------------------------------------
(* Claims about the structural stages (specification Spec). *)

\* C1 (as stated): whenever one of the four tags is missing or duplicated,
\* the returned total is exactly the missing/duplicate penalty, with no
\* existence reward for the tags found before the offending one.
C1_PenaltyAlone ==
    (pc = "done" /\ ~EachTagOnce) => score = MissingOrDuplicatePenalty

\* C2: with each tag exactly once but out of order, the total is the four
\* existence rewards plus the order penalty (-1.0 in rule, -3.0 in newkk),
\* and no content stage has run.
C2_OutOfOrderTotal ==
    (pc = "done" /\ EachTagOnce /\ ~InOrder) =>
        /\ score = IF scorer = "rule" THEN -1000 ELSE -3000
        /\ ran = {"tags", "order"}

C2_Witness ==
    /\ pc = "done" /\ EachTagOnce /\ ~InOrder
    /\ FirstIndex("<answer>") < FirstIndex("<think>")
    /\ Len(model_response) > 4

\* C3: with two <think> tags and one of each other tag, scoring stops at
\* the existence/uniqueness stage with the duplicate penalty, whatever the
\* other text and the ground truth.
C3_DuplicateThink ==
    ( /\ pc = "done"
      /\ Occurrences("<think>") = 2
      /\ \A tag \in Tags \ {"<think>"} : Occurrences(tag) = 1 ) =>
        /\ score = MissingOrDuplicatePenalty
        /\ ran = {"tags"}

C3_Witness ==
    /\ pc = "done"
    /\ Occurrences("<think>") = 2
    /\ \A tag \in Tags \ {"<think>"} : Occurrences(tag) = 1
    /\ Len(model_response) > 5
    /\ DOMAIN ground_truth # {}

\* C4: a content stage is reached (or has run) only for a response holding
\* each tag exactly once, in the order <think> </think> <answer> </answer>.
C4_ContentOnlyWhenAccepted ==
    (pc \in ContentStages \/ ran \cap ContentStages # {}) => StructureAccepted

C4_Witness ==
    /\ pc = "done" /\ scorer = "newkk" /\ "answer" \in ran
    /\ StructureAccepted

\* C5 (as stated): a response and the same response with its delimiter tags
\* in another letter case receive the same total.
C5_CaseInsensitive ==
    pc = "done" => score = TotalOf(LowerTags(model_response))

\* C5 (amended): the tags are matched case-sensitively.  A response whose
\* only opening think tag is written <THINK> is scored as missing <think>:
\* it stops at the first tag with exactly the missing penalty.
C5_CaseSensitive ==
    (pc = "done" /\ Occurrences("<think>") = 0 /\ Occurrences("<THINK>") > 0) =>
        /\ score = MissingOrDuplicatePenalty
        /\ ran = {"tags"}

C5_Witness ==
    /\ pc = "done"
    /\ Occurrences("<think>") = 0 /\ Occurrences("<THINK>") = 1
    /\ \A tag \in Tags \ {"<think>"} : Occurrences(tag) = 1
    /\ score # TotalOf(LowerTags(model_response))

---------------------------------------------------------------------------
(* Claims about the content stages of newkk (SpecLogic, SpecLength). *)

\* The text strictly between the (unique) opening and closing tag.
Block(open, close) ==
    SubSeq(model_response, FirstIndex(open) + 1, FirstIndex(close) - 1)

Blank(text) == \A i \in 1..Len(text) : text[i] \in Whitespace

\* The answer block holds name and, later on the same line, role, both as
\* whole words in any letter case.
Asserted(name, role) ==
    LET a == Block("<answer>", "</answer>")
    IN  \E i, j \in 1..Len(a) :
            /\ i < j
            /\ WordAt(a, i, name) /\ WordAt(a, j, role)
            /\ \A k \in i..j : a[k] # "\n"

AllAsserted == \A name \in DOMAIN gt_map : Asserted(name, gt_map[name])

NumPairs == Cardinality(DOMAIN gt_map)

C8_PenaltyOnEitherShortCircuit ==
    (pc = "done" /\ "answer" \in ran
        /\ (Blank(Block("<answer>", "</answer>")) \/ NumPairs = 0)) =>
        answer_score = -2000

\* C8 (amended): an empty answer block makes the answer stage add the
\* empty-answer penalty -2.0, whatever the ground truth; a non-empty answer
\* block with an empty or unparseable ground truth adds nothing.
C8_PenaltyOnlyForEmptyAnswer ==
    (pc = "done" /\ "answer" \in ran) =>
        /\ Blank(Block("<answer>", "</answer>")) => answer_score = -2000
        /\ (~Blank(Block("<answer>", "</answer>")) /\ NumPairs = 0) =>
               answer_score = 0

C8_Witness ==
    /\ pc = "done" /\ "answer" \in ran
    /\ ~Blank(Block("<answer>", "</answer>"))
    /\ NumPairs = 0
    /\ DOMAIN ground_truth # {}
    /\ answer_score = 0

C23_AcceptedAboveRejected ==
    (scorer = "rule" /\ pc = "done") =>
        IF StructureAccepted
        THEN /\ score \in {3000 + t + a : t \in {200, -500}, a \in {500, -1000}}
             /\ score >= 1500
        ELSE score <= -500

C23_Witness ==
    /\ scorer = "rule" /\ pc = "done"
    /\ StructureAccepted
    /\ Blank(Block("<think>", "</think>"))
    /\ Block("<answer>", "</answer>") = << >>
    /\ Len(model_response) > 4
    /\ score = 1500

---------------------------------------------------------------------------
(* Claims about chem.compute_score (SpecChem). *)

IsOpenTag(t)  == t \in {"<SMILES>", "<smiles>"}
IsCloseTag(t) == t = "</SMILES>"

OpenTags  == {i \in 1..Len(solution_str) : IsOpenTag(solution_str[i])}
CloseTags == {i \in 1..Len(solution_str) : IsCloseTag(solution_str[i])}

\* Exactly one opening and one closing tag, the opening one first, and
\* something other than whitespace between them.
WellFormedSmiles ==
    /\ Cardinality(OpenTags) = 1
    /\ Cardinality(CloseTags) = 1
    /\ \E i \in OpenTags, j \in CloseTags :
           /\ i < j
           /\ ~Blank(SubSeq(solution_str, i + 1, j - 1))

PropertyStages ==
    {"qed_score", "sa_score", "logp_score", "mw_score", "tpsa_score",
     "lipinski_score", "egfr_score", "total"}

\* C10: a response without exactly one <SMILES> ... </SMILES> pair holding
\* non-blank text returns exactly -5.0, and neither the validity stage nor
\* a property stage runs for it.
C10_FormatFailure ==
    (scorer = "chem" /\ ~WellFormedSmiles) =>
        /\ "validity" \notin ran
        /\ ran \cap PropertyStages = {}
        /\ pc = "done" => total_score = -5000

C10_Witness ==
    /\ pc = "done"
    /\ RDKIT_AVAILABLE
    /\ solution_str = << "<SMILES>", "</SMILES>" >>
    /\ total_score = -5000
    /\ ran = {"rdkit", "format"}

ParseFailed ==
    /\ oracle_parse # << >>
    /\ oracle_parse[1].raised \/ oracle_parse[1].returned = << >>

\* C11: when the SMILES passes the format check and RDKit returns no
\* molecule for it or raises, compute_score returns 1.0 + (-3.0) = -2.0 and
\* none of the seven property functions is evaluated.
C11_ParseFailure ==
    (scorer = "chem" /\ ParseFailed) =>
        /\ pc = "done"
        /\ format_reward = 1000
        /\ total_score = -2000
        /\ ran \cap PropertyStages = {}
        /\ property_scores = EmptyMap

C11_Witness ==
    /\ pc = "done"
    /\ WellFormedSmiles
    /\ oracle_parse = << [raised |-> TRUE, returned |-> << >>] >>
    /\ total_score = -2000
    /\ ran = {"rdkit", "format", "validity"}

\* The documented range of each component (docstring, lines 330-338).
PropertyMax(name) ==
    CASE name = "qed_score"      -> 2000
      [] name = "sa_score"       -> 2000
      [] name = "logp_score"     -> 1500
      [] name = "mw_score"       -> 1000
      [] name = "tpsa_score"     -> 1000
      [] name = "lipinski_score" -> 1500
      [] name = "egfr_score"     -> 1000

PropertyNames == PropertyStages \ {"total"}

\* C22: the total compute_score returns is between -5.0 and 11.5: it is
\* -5.0 without RDKit or on a format failure, -2.0 on a parse failure, and
\* otherwise 1.5 plus seven property rewards, each between 0 and its
\* documented maximum.
C22_TotalRange ==
    (scorer = "chem" /\ pc = "done") =>
        /\ -5000 <= total_score /\ total_score <= 11500
        /\ (~RDKIT_AVAILABLE \/ ~WellFormedSmiles) => total_score = -5000
        /\ (RDKIT_AVAILABLE /\ WellFormedSmiles /\ ParseFailed) =>
               total_score = -2000
        /\ (RDKIT_AVAILABLE /\ WellFormedSmiles /\ ~ParseFailed) =>
               /\ DOMAIN property_scores = PropertyNames
               /\ \A name \in PropertyNames :
                      /\ 0 <= property_scores[name]
                      /\ property_scores[name] <= PropertyMax(name)
               /\ total_score = 1500
                      + property_scores["qed_score"]
                      + property_scores["sa_score"]
                      + property_scores["logp_score"]
                      + property_scores["mw_score"]
                      + property_scores["tpsa_score"]
                      + property_scores["lipinski_score"]
                      + property_scores["egfr_score"]

C22_Witness ==
    /\ pc = "done"
    /\ WellFormedSmiles
    /\ SA_SCORE_AVAILABLE
    /\ "total" \in ran
    /\ \A name \in PropertyNames : property_scores[name] = PropertyMax(name)
    /\ total_score = 11500

---------------------------------------------------------------------------
(* Claims about the property functions (SpecProperties). *)

OracleUnavailable(name) ==
    IF name = "sa_score" THEN ~SA_SCORE_AVAILABLE ELSE ~RDKIT_AVAILABLE

\* C12: a property function whose library is missing, or whose RDKit call
\* raises, still returns, and returns 0; sa_reward alone returns the neutral
\* 1.0 when the synthetic-accessibility scorer is missing.
C12_PropertyNeverRaises ==
    scorer = "chem" =>
        /\ DOMAIN oracle_raises = DOMAIN property_scores
        /\ \A name \in DOMAIN property_scores :
               (OracleUnavailable(name) \/ oracle_raises[name]) =>
                   property_scores[name] =
                       IF name = "sa_score" /\ ~SA_SCORE_AVAILABLE
                       THEN 1000 ELSE 0

C12_Witness ==
    /\ pc = "done"
    /\ RDKIT_AVAILABLE /\ ~SA_SCORE_AVAILABLE
    /\ oracle_raises["qed_score"] /\ property_scores["qed_score"] = 0
    /\ property_scores["sa_score"] = 1000
    /\ ~oracle_raises["mw_score"] /\ property_scores["mw_score"] = 1000

---------------------------------------------------------------------------
(* Claims about successive calls of chem.compute_score (SpecChemTwice). *)

\* C18: a call of compute_score on the text of an earlier call, with RDKit
\* answering as it did then, returns the total the earlier call returned.
C18_Deterministic ==
    (scorer = "chem" /\ pc = "done") =>
        \A k \in 1..Len(chem_returns) : chem_returns[k] = total_score

C18_Witness ==
    /\ pc = "done"
    /\ Len(chem_returns) = 1
    /\ "total" \in ran
    /\ \E name \in DOMAIN oracle_raises : oracle_raises[name]
    /\ total_score > 1500
    /\ chem_returns[1] = total_score

---------------------------------------------------------------------------
(* Claims about the reward managers (SpecManager). *)

Items == data.items

Precomputed == data.rm_scores # << >>

\* The column (from 1) of the last response token whose attention mask is
\* true; 0 when the response has none.
LastTrue(item) ==
    LET resp == SliceFrom(item.attention_mask, Len(item.prompts))
        on   == {k \in 1..Len(resp) : resp[k] = 1}
    IN  IF on = {} THEN 0 ELSE CHOOSE k \in on : \A l \in on : l <= k

CallsStarted == Len(returns) + (IF mgr_pc = "idle" THEN 0 ELSE 1)

\* C13: on a batch that carries rm_scores every call returns that tensor,
\* so successive calls return the same tensor, and no response is decoded
\* or scored.
C13_PassThrough ==
    (manager # "none" /\ Precomputed) =>
        /\ \A k \in 1..Len(returns) : returns[k] = data.rm_scores[1]
        /\ scored = << >>
        /\ reward_extra_info = << >>
        /\ mgr_pc = "idle"

C13_Witness ==
    /\ manager = "logic_rl"
    /\ Precomputed
    /\ Len(returns) >= 2
    /\ returns[1] = data.rm_scores[1]
    /\ returns[2] = returns[1]

\* C14: the grid a call returns for a batch without rm_scores has one row
\* per sample and max_response_length columns, and a cell of row r that is
\* not zero is the cell of the last attention-mask-true response token of
\* sample r and holds the score of sample r.
C14_OneCellAtLastToken ==
    (manager # "none" /\ ~Precomputed /\ mgr_pc = "idle") =>
        \A k \in 1..Len(returns) :
            /\ Len(returns[k]) = Len(Items)
            /\ \A r \in 1..Len(Items) :
                   /\ Len(returns[k][r]) = Len(Items[r].responses)
                   /\ \A c \in 1..Len(returns[k][r]) :
                          returns[k][r][c] # 0 =>
                              /\ c = LastTrue(Items[r])
                              /\ returns[k][r][c] = reward_extra_info[r]

\* C15: a call never gets past a sample whose response has no
\* attention-mask-true token: it stops with an error instead of scoring it
\* and writing the score into some cell.
C15_ZeroLengthAborts ==
    (manager # "none" /\ ~Precomputed /\ mgr_pc # "raised") =>
        \A r \in 1..Len(reward_extra_info) : LastTrue(Items[r]) > 0

\* C16: every sample LogicRLRewardManager scores is scored by the function
\* registered for its own data source, and a sample whose data source has
\* no registered function is not scored.
C16_ScorerByDataSource ==
    manager = "logic_rl" =>
        \A k \in 1..Len(scored) :
            LET sel == select_rm_score_fn(Items[scored[k].row].data_source)
            IN  /\ sel # << >>
                /\ scored[k].fn = sel[1]

\* C17, as claimed: over all the calls of a run no data source has more
\* than num_examine examples printed.
C17_AtMostNPerRun ==
    \A source \in DOMAIN printed : printed[source] <= num_examine

\* C17, amended: within one call no data source has more than num_examine
\* examples printed; the counter is a local of the call, so a run of k calls
\* prints up to k * num_examine examples of a data source.
C17_AtMostNPerCall ==
    manager # "none" =>
        /\ \A source \in DOMAIN already_print_data_sources :
               already_print_data_sources[source] <= num_examine
        /\ \A source \in DOMAIN printed :
               printed[source] <= num_examine * CallsStarted

C17_Witness ==
    /\ num_examine = 1
    /\ Len(returns) = 2
    /\ \E source \in DOMAIN printed :
           /\ printed[source] = 2
           /\ already_print_data_sources[source] = 1

\* Two samples with the same response text and the same ground truth.
SameOwnData(a, b) ==
    /\ ResponseStr(a) = ResponseStr(b)
    /\ a.reward_model = b.reward_model

\* C19: the diagnostics list holds one score per processed sample, in
\* sample order; the score of sample r is a cell of row r and of no other
\* row; and two samples with the same response text and ground truth have
\* the same score, wherever they stand in the batch.
C19_OwnSampleOnly ==
    (manager # "none" /\ ~Precomputed /\ mgr_pc = "loop") =>
        /\ Len(reward_extra_info) = sample_i
        /\ \A r \in 1..Len(Items) :
               IF r <= sample_i
               THEN /\ \E c \in 1..Len(reward_tensor[r]) :
                          reward_tensor[r][c] = reward_extra_info[r]
                    /\ \A q \in 1..sample_i :
                          SameOwnData(Items[r], Items[q]) =>
                              reward_extra_info[r] = reward_extra_info[q]
               ELSE \A c \in 1..Len(reward_tensor[r]) : reward_tensor[r][c] = 0

C19_Witness ==
    /\ manager = "chem"
    /\ mgr_pc = "loop"
    /\ sample_i = 2
    /\ Items[1].responses = Items[2].responses
    /\ LastTrue(Items[1]) = 3 /\ LastTrue(Items[2]) = 3
    /\ Items[1].data_source # Items[2].data_source
    /\ reward_extra_info[1] > 1500
    /\ reward_extra_info[2] = reward_extra_info[1]
    /\ reward_tensor[2][3] = reward_extra_info[2]

---------------------------------------------------------------------------
(* Claims about the answer stage of newkk.compute_score (SpecLogic). *)

\* The answer block reads "<name> is a <role>" at token i.
SaysAt(a, i, role) ==
    /\ i + 6 <= Len(a)
    /\ IsWord(a[i])
    /\ a[i + 1] = " " /\ Lower(a[i + 2]) = "is"
    /\ a[i + 3] = " " /\ Lower(a[i + 4]) = "a"
    /\ a[i + 5] = " " /\ WordAt(a, i + 6, role)

\* The answer states the other role for name, and every occurrence of the
\* word role is the role of a sentence about another name.
OppositeOnly(name, role) ==
    LET a == Block("<answer>", "</answer>")
    IN  /\ \E i \in 1..Len(a), other \in Roles \ {role} :
               WordAt(a, i, name) /\ SaysAt(a, i, other)
        /\ \A j \in 1..Len(a) :
               WordAt(a, j, role) =>
                   /\ j > 6
                   /\ SaysAt(a, j - 6, role)
                   /\ Lower(a[j - 6]) # name

\* C20: a pair (name, role) for which the answer states the opposite role
\* and uses the word role only about other names earns no bonus: the answer
\* component is at most 4 for each of the remaining pairs.
C20_NoBonusForOppositeRole ==
    (scorer = "newkk" /\ pc = "done" /\ "answer" \in ran) =>
        answer_score <=
            NEWKK_REWARD_FOR_EACH_CORRECT_ASSERTION
              * Cardinality({name \in DOMAIN gt_map :
                                 ~OppositeOnly(name, gt_map[name])})

---------------------------------------------------------------------------
(* Claims about qed_reward (SpecQed). *)

\* C21: qed_reward is 0 for a drug-likeness below 0.5 and (value - 0.5) * 4
\* from 0.5 on, which is 2.0 at the largest value; whatever RDKit does, the
\* reward is at least 0 and at most 2.0.
C21_QedRange ==
    (scorer = "chem" /\ "qed_score" \in DOMAIN property_scores) =>
        LET value  == mol[1].qed
            reward == property_scores["qed_score"]
        IN  /\ 0 <= reward /\ reward <= 2000
            /\ (RDKIT_AVAILABLE /\ ~oracle_raises["qed_score"]) =>
                   /\ value < 500 => reward = 0
                   /\ value >= 500 => reward = (value - 500) * 4
                   /\ value = QED_MAX => reward = 2000

C21_Witness ==
    /\ pc = "sa"
    /\ RDKIT_AVAILABLE /\ ~oracle_raises["qed_score"]
    /\ mol[1].qed = 875
    /\ property_scores["qed_score"] = 1500

=============================================================================
